---------------------------- MODULE Spec2Model ----------------------------
(***************************************************************************)
(* Sell Target Assistant (src/app.py): the sell-target rule engine          *)
(* (compute_sell_target), the standing-order index (build_gtt_index) and    *)
(* the two reconciliation paths of the page ("Update ALL" and the           *)
(* per-symbol button), with the broker (Kite) as the environment.           *)
(*                                                                          *)
(* Optional values (Python None or a number) are sequences: <<>> is None    *)
(* and <<v>> is the number v.  Prices are whole numbers of one price unit   *)
(* and k is a whole multiplier, so all arithmetic is exact.                 *)
(*                                                                          *)
(* ComputeSpec calls compute_sell_target once on every input in bounds.     *)
(* Spec is the page after login: every action is one script run, started by *)
(* a button or a toggle, and `run` records what that run did.  On the page  *)
(* the portfolio has two holdings, and the strategy widgets and the         *)
(* "how many holdings" slider keep their initial values.  Session keys that *)
(* only drive messages or tables (last_rule_key, last_fetch_count,          *)
(* targets_df) and the row fields profit_% and has_target_data are left out.*)
(***************************************************************************)
EXTENDS Integers, Sequences, FiniteSets, TLC

(* ------------------------------ bounds -------------------------------- *)
\* analyst prices and average prices range over 1..MaxPrice
MaxPrice == 3
\* standard deviations range over 0..MaxStd
MaxStd == 1
\* the multiplier k ranges over 0..MaxK
MaxK == 1

(* -------------------------- optional values --------------------------- *)
None == <<>>

Some(v) == <<v>>

IsNone(x) == x = <<>>

Val(x) == x[1]

Opt(S) == {None} \cup {Some(v) : v \in S}

\* Python truthiness of an optional number: None and 0 are falsy
Truthy(x) == ~IsNone(x) /\ Val(x) # 0

\* Python `a or b`
OrElse(a, b) == IF Truthy(a) THEN a ELSE b

Max2(a, b) == IF a >= b THEN a ELSE b

Min2(a, b) == IF a <= b THEN a ELSE b

(* ------------------------------- rules -------------------------------- *)
RuleLow == "Low"

RuleMean == "Mean"

RuleMedian == "Median"

RuleHigh == "High"

RuleBase == "Base (max mean/median)"

RuleBaseK == "Base + k*StdDev (cap High)"

RuleMeanK == "Mean + k*StdDev (cap High)"

RuleMedianK == "Median + k*StdDev (cap High)"

Rules == {RuleLow, RuleMean, RuleMedian, RuleHigh, RuleBase, RuleBaseK, RuleMeanK, RuleMedianK}

\* `"StdDev" in rule`
HasStdDev(rule) == rule \in {RuleBaseK, RuleMeanK, RuleMedianK}

(* ------------------------ compute_sell_target ------------------------- *)
\* a priceTarget payload: each key absent (None) or a number
Payloads ==
  [Low : Opt(1..MaxPrice), Mean : Opt(1..MaxPrice), Median : Opt(1..MaxPrice),
   StandardDeviation : Opt(0..MaxStd), StdDev : Opt(0..MaxStd), High : Opt(1..MaxPrice)]

EmptyPayload ==
  [Low |-> None, Mean |-> None, Median |-> None,
   StandardDeviation |-> None, StdDev |-> None, High |-> None]

\* `not target_data`: the payload is the empty dict
IsEmptyPayload(td) == td = EmptyPayload

\* std_dev = target_data.get("StandardDeviation") or target_data.get("StdDev")
StdDevOf(td) == OrElse(td.StandardDeviation, td.StdDev)

cap(val, high, cap_at_high) ==
  IF IsNone(val) THEN None
  ELSE IF cap_at_high /\ ~IsNone(high) THEN Some(Min2(Val(val), Val(high)))
  ELSE val

\* above_avg with >= in place of >
above_avg_ge(val, avg_price) == ~IsNone(val) /\ Val(val) >= Val(avg_price)

above_avg(val, avg_price) == ~IsNone(val) /\ Val(val) > Val(avg_price)

\* Pick with a fallback to High when the capped value is not above avg_price
PickFallbackHigh(x, high, cap_at_high, avg_price) ==
  LET v == cap(x, high, cap_at_high)
  IN  IF above_avg(v, avg_price) THEN v
      ELSE IF above_avg(high, avg_price) THEN high ELSE None

\* `v = cap(x); return v if above_avg(v) else None`
Pick(x, high, cap_at_high, avg_price) ==
  LET v == cap(x, high, cap_at_high)
  IN  IF above_avg(v, avg_price) THEN v ELSE None

compute_sell_target(target_data, avg_price, rule, k, cap_at_high) ==
  IF IsEmptyPayload(target_data) \/ IsNone(avg_price) THEN None
  ELSE
    LET low == target_data.Low
        mean == target_data.Mean
        median == target_data.Median
        std_dev == StdDevOf(target_data)
        high == target_data.High
    IN  IF rule = RuleLow THEN Pick(low, high, cap_at_high, avg_price)
        ELSE IF rule = RuleMean THEN Pick(mean, high, cap_at_high, avg_price)
        ELSE IF rule = RuleMedian THEN Pick(median, high, cap_at_high, avg_price)
        ELSE IF rule = RuleHigh THEN Pick(high, high, cap_at_high, avg_price)
        ELSE IF IsNone(mean) \/ IsNone(median) THEN None
        ELSE
          LET base == Max2(Val(mean), Val(median))
          IN  IF rule = RuleBase THEN Pick(Some(base), high, cap_at_high, avg_price)
              ELSE IF HasStdDev(rule) /\ IsNone(std_dev) THEN None
              ELSE IF rule = RuleBaseK
                THEN Pick(Some(base + k * Val(std_dev)), high, cap_at_high, avg_price)
              ELSE IF rule = RuleMeanK
                THEN Pick(Some(Val(mean) + k * Val(std_dev)), high, cap_at_high, avg_price)
              ELSE IF rule = RuleMedianK
                THEN Pick(Some(Val(median) + k * Val(std_dev)), high, cap_at_high, avg_price)
              ELSE None

(* ------------------------------ bounds -------------------------------- *)
\* the broker starts with at most MaxInitGtts standing orders
MaxInitGtts == 2
\* order ids handed out by the broker stay within 1..MaxOrderId
MaxOrderId == 3

(* ------------------------------ strings ------------------------------- *)
\* str.upper() on the tradingsymbols that occur
Upper(s) ==
  IF s = "a" THEN "A" ELSE IF s = "b" THEN "B" ELSE s

\* the (normalised) symbols of the portfolio's holdings, in sorted order
SymbolNames == <<"A", "B">>

Symbols == {SymbolNames[i] : i \in 1..Len(SymbolNames)}

\* tradingsymbols the broker reports on standing orders found at start-up
\* ("" is a record without a tradingsymbol)
GttSymbols == {"A", "b", ""}

RECURSIVE SeqsUpTo(_, _)
\* all sequences over S of length <= n
SeqsUpTo(S, n) ==
  IF n = 0 THEN {<<>>}
  ELSE LET shorter == SeqsUpTo(S, n - 1)
       IN  shorter \cup {Append(q, x) : q \in {r \in shorter : Len(r) = n - 1}, x \in S}

(* ------------------------------ holdings ------------------------------ *)
\* one row of `rows`: symbol, exchange, quantity, avg_price, ltp
HoldingRow(i, quantity, avg_price, ltp) ==
  [symbol |-> SymbolNames[i], exchange |-> "NSE", quantity |-> quantity,
   avg_price |-> avg_price, ltp |-> ltp]

\* holding quantities: none left, or some
Quantities == {0, 10}

\* the holdings tables considered: every quantity, a last price present or
\* missing, and an average price of one unit
HoldingsSet ==
  [1..Len(SymbolNames) -> [quantity : Quantities, avg_price : {Some(1)}, ltp : Opt({1})]]

HoldingsOf(h) == [i \in 1..Len(SymbolNames) |-> HoldingRow(i, h[i].quantity, h[i].avg_price, h[i].ltp)]

\* what fetch_price_target_cached may return for a symbol on the page:
\* {} (no data, bad response) or a full priceTarget
PagePayloads ==
  {EmptyPayload,
   [Low |-> Some(MaxPrice), Mean |-> Some(MaxPrice), Median |-> Some(MaxPrice),
    StandardDeviation |-> Some(1), StdDev |-> None, High |-> Some(MaxPrice)]}

(* ------------------------- standing-order index ------------------------ *)
Gtt(id, tradingsymbol) == [id |-> id, tradingsymbol |-> tradingsymbol]

\* IdsFor without the upper-casing of the tradingsymbol
IdsForNoUpper(existing_gtts, key) ==
  SelectSeq([i \in 1..Len(existing_gtts) |->
               IF existing_gtts[i].tradingsymbol = key /\ key # ""
               THEN existing_gtts[i].id ELSE 0],
            LAMBDA x : x # 0)

RECURSIVE IdsFor(_, _)
\* the ids build_gtt_index collects under key `key`, in list order
IdsFor(existing_gtts, key) ==
  IF existing_gtts = <<>> THEN <<>>
  ELSE LET gtt == Head(existing_gtts)
           symbol == Upper(gtt.tradingsymbol)
           gid == gtt.id
           tail == IdsFor(Tail(existing_gtts), key)
       IN  IF symbol # "" /\ gid # 0 /\ symbol = key THEN <<gid>> \o tail ELSE tail

\* gtt_index.get(key, []) for every key
build_gtt_index(existing_gtts) == [key \in Symbols |-> IdsFor(existing_gtts, key)]

(* ------------------------------- broker ------------------------------- *)
BrokerIds(broker) == {broker[i].id : i \in 1..Len(broker)}

RemoveGtt(broker, tid) == SelectSeq(broker, LAMBDA g : g.id # tid)

\* the standing orders of a symbol at the broker
CountFor(broker, symbol) ==
  Cardinality({i \in 1..Len(broker) : Upper(broker[i].tradingsymbol) = symbol})

\* one request of a run to the broker, with its outcome
DeleteEntry(symbol, tid, ok) ==
  [op |-> "delete_gtt", symbol |-> symbol, id |-> tid, exchange |-> "",
   trigger |-> None, last_price |-> None, quantity |-> 0, price |-> None,
   transaction_type |-> "", order_type |-> "", product |-> "", ok |-> ok]

PlaceEntry(symbol, exchange, ltp, quantity, sell_target, id, ok) ==
  [op |-> "place_gtt", symbol |-> symbol, id |-> id, exchange |-> exchange,
   trigger |-> sell_target, last_price |-> ltp, quantity |-> quantity,
   price |-> sell_target, transaction_type |-> "SELL", order_type |-> "LIMIT",
   product |-> "CNC", ok |-> ok]

\* the part of the world a run works on: the broker's orders, its id counter,
\* the requests made so far and the symbols handed to delete_existing_gtts
World(broker, nextId, calls, reconciled) ==
  [broker |-> broker, nextId |-> nextId, calls |-> calls, reconciled |-> reconciled]

RECURSIVE DeleteLoop(_, _, _, _, _)
\* for tid in ids: try kite.delete_gtt(tid); deleted += 1 except: log.error
DeleteLoop(ids, symbol, delFail, w, deleted) ==
  IF ids = <<>> THEN [deleted |-> deleted, w |-> w]
  ELSE LET tid == Head(ids)
           ok == tid \notin delFail /\ tid \in BrokerIds(w.broker)
           w2 == [w EXCEPT !.broker = IF ok THEN RemoveGtt(@, tid) ELSE @,
                           !.calls = Append(@, DeleteEntry(symbol, tid, ok))]
       IN  DeleteLoop(Tail(ids), symbol, delFail, w2, IF ok THEN deleted + 1 ELSE deleted)

RECURSIVE DeleteLoopAbort(_, _, _, _, _)
\* DeleteLoop that stops at the first failed delete
DeleteLoopAbort(ids, symbol, delFail, w, deleted) ==
  IF ids = <<>> THEN [deleted |-> deleted, w |-> w]
  ELSE LET tid == Head(ids)
           ok == tid \notin delFail /\ tid \in BrokerIds(w.broker)
           w2 == [w EXCEPT !.broker = IF ok THEN RemoveGtt(@, tid) ELSE @,
                           !.calls = Append(@, DeleteEntry(symbol, tid, ok))]
       IN  IF ok THEN DeleteLoopAbort(Tail(ids), symbol, delFail, w2, deleted + 1)
           ELSE [deleted |-> deleted, w |-> w2]

\* delete_existing_gtts over that loop
delete_existing_gtts_abort(symbol, gtt_index, delFail, w) ==
  DeleteLoopAbort(gtt_index[Upper(symbol)], symbol, delFail,
                  [w EXCEPT !.reconciled = Append(@, symbol)], 0)

\* returns [deleted, w]; never raises
delete_existing_gtts(symbol, gtt_index, delFail, w) ==
  DeleteLoop(gtt_index[Upper(symbol)], symbol, delFail,
             [w EXCEPT !.reconciled = Append(@, symbol)], 0)

\* place_gtt with the last price where the sell target belongs
place_gtt_at_ltp(symbol, exchange, ltp, quantity, sell_target, placeFail, w) ==
  LET ok == symbol \notin placeFail
  IN  [raised |-> ~ok,
       w |-> [w EXCEPT
                !.broker = IF ok THEN Append(@, Gtt(w.nextId, symbol)) ELSE @,
                !.nextId = IF ok THEN @ + 1 ELSE @,
                !.calls = Append(@, PlaceEntry(symbol, exchange, ltp, quantity, ltp,
                                               IF ok THEN w.nextId ELSE 0, ok))]]

\* returns [raised, w]: the request either registers one new order or raises
place_gtt(symbol, exchange, ltp, quantity, sell_target, placeFail, w) ==
  LET ok == symbol \notin placeFail
  IN  [raised |-> ~ok,
       w |-> [w EXCEPT
                !.broker = IF ok THEN Append(@, Gtt(w.nextId, symbol)) ELSE @,
                !.nextId = IF ok THEN @ + 1 ELSE @,
                !.calls = Append(@, PlaceEntry(symbol, exchange, ltp, quantity, sell_target,
                                               IF ok THEN w.nextId ELSE 0, ok))]]

(* --------------------------- the page's rows --------------------------- *)
\* one entry of `results`
ResultRow(r, sell_target) ==
  [symbol |-> r.symbol, exchange |-> r.exchange, qty |-> r.quantity,
   avg_price |-> r.avg_price, ltp |-> r.ltp, sell_target |-> sell_target]

\* the sell target the fetch loop stores for a holding
RowTarget(r, target_data, rule, k, cap_at_high) ==
  IF ~IsNone(r.avg_price)
  THEN compute_sell_target(target_data, r.avg_price, rule, k, cap_at_high)
  ELSE None

\* the filter without the quantity check
IsValidRowNoQty(r) == ~IsNone(r.sell_target) /\ ~IsNone(r.ltp)

\* the filter of valid_rows
IsValidRow(r) == ~IsNone(r.sell_target) /\ r.qty > 0 /\ ~IsNone(r.ltp)

valid_rows(results) == SelectSeq(results, IsValidRow)

\* `disabled` of a row's button
Disabled(r) == IsNone(r.sell_target) \/ r.qty <= 0 \/ IsNone(r.ltp)

(* ------------------------------- state -------------------------------- *)
VARIABLES
  cpc,              \* "ready" before a direct call of compute_sell_target, "done" after it, "page" on the page
  call,             \* the arguments of that call
  ret,              \* its return value
  holdings,         \* rows: the holdings table, sorted by symbol
  brokerGtts,       \* the broker's standing orders, in the order get_gtts lists them
  nextId,           \* the id the broker gives the next order
  targets_fetched,  \* st.session_state.targets_fetched
  targets_results,  \* st.session_state.targets_results
  dry_run,          \* the "Dry run" toggle
  confirm_all,      \* the "I confirm" checkbox
  run               \* what the latest script run did

vars == <<cpc, call, ret, holdings, brokerGtts, nextId, targets_fetched,
          targets_results, dry_run, confirm_all, run>>

pageVars == <<holdings, brokerGtts, nextId, targets_fetched, targets_results,
              dry_run, confirm_all, run>>

callVars == <<cpc, call, ret>>

(* ------------------------- one script run ----------------------------- *)
\* what a script run leaves on the page and in the log
\*   kind       : which button started the run
\*   gtts_ok    : whether kite.get_gtts() answered (else existing_gtts = [])
\*   gtt_index  : the index built from it
\*   calls      : the broker requests made, in order
\*   reconciled : the symbols handed to delete_existing_gtts, in order
\*   status     : the "Processing <symbol>" lines of Update ALL
\*   success, failed : the counters of Update ALL
\*   symbol     : the symbol of the per-symbol button pressed ("" otherwise)
\*   deleted    : the count the per-symbol success message reports
RunRecord(kind, gtts_ok, gtt_index, w, status, success, failed, symbol, deleted) ==
  [kind |-> kind, gtts_ok |-> gtts_ok, gtt_index |-> gtt_index, calls |-> w.calls,
   reconciled |-> w.reconciled, status |-> status, success |-> success,
   failed |-> failed, symbol |-> symbol, deleted |-> deleted]

EmptyIndex == [key \in Symbols |-> <<>>]

NoRun(kind) ==
  RunRecord(kind, TRUE, EmptyIndex, World(<<>>, 0, <<>>, <<>>), <<>>, 0, 0, "", None)

\* try: existing_gtts = kite.get_gtts() except: existing_gtts = []
ExistingGtts(gtts_ok, broker) == IF gtts_ok THEN broker ELSE <<>>

\* the loop state of Update ALL
Loop(w, status, success, failed) ==
  [w |-> w, status |-> status, success |-> success, failed |-> failed]

\* the iteration of a loop that gives up after the first failure
UpdateAllStepStop(row, gtt_index, dry, delFail, placeFail, st) ==
  IF st.failed > 0 THEN st
  ELSE
  LET status == Append(st.status, row.symbol)
  IN  IF dry THEN Loop(st.w, status, st.success + 1, st.failed)
      ELSE LET d == delete_existing_gtts(row.symbol, gtt_index, delFail, st.w)
               p == place_gtt(row.symbol, row.exchange, row.ltp, row.qty,
                              row.sell_target, placeFail, d.w)
           IN  IF p.raised THEN Loop(p.w, status, st.success, st.failed + 1)
               ELSE Loop(p.w, status, st.success + 1, st.failed)

\* one iteration of `for i, row in enumerate(valid_rows, start=1)`
UpdateAllStep(row, gtt_index, dry, delFail, placeFail, st) ==
  LET status == Append(st.status, row.symbol)
  IN  IF dry THEN Loop(st.w, status, st.success + 1, st.failed)
      ELSE LET d == delete_existing_gtts(row.symbol, gtt_index, delFail, st.w)
               p == place_gtt(row.symbol, row.exchange, row.ltp, row.qty,
                              row.sell_target, placeFail, d.w)
           IN  IF p.raised THEN Loop(p.w, status, st.success, st.failed + 1)
               ELSE Loop(p.w, status, st.success + 1, st.failed)

RECURSIVE UpdateAllLoop(_, _, _, _, _, _)
UpdateAllLoop(rows, gtt_index, dry, delFail, placeFail, st) ==
  IF rows = <<>> THEN st
  ELSE UpdateAllLoop(Tail(rows), gtt_index, dry, delFail, placeFail,
                     UpdateAllStep(Head(rows), gtt_index, dry, delFail, placeFail, st))

\* the button's body without the dry-run check
UpdateOneBodyNoDry(row, gtt_index, dry, delFail, placeFail, w) ==
  LET d == delete_existing_gtts(row.symbol, gtt_index, delFail, w)
      p == place_gtt(row.symbol, row.exchange, row.ltp, row.qty,
                     row.sell_target, placeFail, d.w)
  IN  [w |-> p.w, deleted |-> IF p.raised THEN None ELSE Some(d.deleted)]

\* the body of a pressed per-symbol button; returns [w, deleted]
UpdateOneBody(row, gtt_index, dry, delFail, placeFail, w) ==
  IF dry THEN [w |-> w, deleted |-> None]
  ELSE LET d == delete_existing_gtts(row.symbol, gtt_index, delFail, w)
           p == place_gtt(row.symbol, row.exchange, row.ltp, row.qty,
                          row.sell_target, placeFail, d.w)
       IN  [w |-> p.w, deleted |-> IF p.raised THEN None ELSE Some(d.deleted)]

(* ------------------------------ the page ------------------------------ *)
InitGtts ==
  {[i \in 1..Len(q) |-> Gtt(i, q[i])] : q \in SeqsUpTo(GttSymbols, MaxInitGtts)}

CallIdle ==
  [target_data |-> EmptyPayload, avg_price |-> None, rule |-> RuleBaseK,
   k |-> 1, cap_at_high |-> TRUE]

\* the page right after login, before any target was fetched
Init ==
  /\ cpc = "page"
  /\ call = CallIdle
  /\ ret = None
  /\ holdings \in {HoldingsOf(h) : h \in HoldingsSet}
  /\ brokerGtts \in InitGtts
  /\ nextId = Len(brokerGtts) + 1
  /\ targets_fetched = FALSE
  /\ targets_results = <<>>
  /\ dry_run = TRUE
  /\ confirm_all = FALSE
  /\ run = NoRun("none")

\* the strategy widgets as the page first shows them
DefaultRule == RuleBaseK

DefaultK == 1

DefaultCap == TRUE

\* the "How many holdings to process?" slider as the page first shows it
DefaultNum(df) == Min2(10, Len(df))

\* "Fetch / Refresh targets": results for the first num holdings, with the
\* strategy widgets and the slider left as the page first shows them
\* (ComputeSpec covers every strategy)
FetchTargets ==
  /\ cpc = "page"
  /\ \E num \in {DefaultNum(holdings)} :
       \E data \in [1..num -> PagePayloads] :
         targets_results' =
           [i \in 1..num |->
              ResultRow(holdings[i],
                        RowTarget(holdings[i], data[i], DefaultRule, DefaultK, DefaultCap))]
  /\ targets_fetched' = TRUE
  /\ run' = NoRun("fetch")
  /\ UNCHANGED <<holdings, brokerGtts, nextId, dry_run, confirm_all, callVars>>

\* "Clear targets"; the widgets below st.stop() are not drawn and fall back
\* to their defaults when drawn again
ClearTargets ==
  /\ cpc = "page"
  /\ targets_fetched
  /\ targets_fetched' = FALSE
  /\ targets_results' = <<>>
  /\ dry_run' = TRUE
  /\ confirm_all' = FALSE
  /\ run' = NoRun("clear")
  /\ UNCHANGED <<holdings, brokerGtts, nextId, callVars>>

ToggleDryRun ==
  /\ cpc = "page"
  /\ targets_fetched
  /\ dry_run' = ~dry_run
  /\ run' = NoRun("toggle")
  /\ UNCHANGED <<holdings, brokerGtts, nextId, targets_fetched, targets_results,
                 confirm_all, callVars>>

ToggleConfirmAll ==
  /\ cpc = "page"
  /\ targets_fetched
  /\ confirm_all' = ~confirm_all
  /\ run' = NoRun("toggle")
  /\ UNCHANGED <<holdings, brokerGtts, nextId, targets_fetched, targets_results,
                 dry_run, callVars>>

\* the requests a run over `rows` can make, each of which the broker may fail:
\* deletes of the indexed ids of the rows' symbols, and one place per row
DeleteTargets(rows, gtts_ok) ==
  IF dry_run THEN {}
  ELSE LET gtt_index == build_gtt_index(ExistingGtts(gtts_ok, brokerGtts))
       IN  UNION {{gtt_index[rows[j].symbol][n] : n \in 1..Len(gtt_index[rows[j].symbol])} :
                  j \in 1..Len(rows)}

\* kite.get_gtts() answers or raises; a dry run never reads the index, so
\* only the answered case is followed there
GttsOutcomes == IF dry_run THEN {TRUE} ELSE BOOLEAN

PlaceTargets(rows) == IF dry_run THEN {} ELSE {rows[j].symbol : j \in 1..Len(rows)}

update_all_disabled ==
  Len(valid_rows(targets_results)) = 0 \/ (~dry_run /\ ~confirm_all)

\* "Update ALL GTTs for valid targets"
UpdateAll ==
  /\ cpc = "page"
  /\ targets_fetched
  /\ ~update_all_disabled
  /\ \E gtts_ok \in GttsOutcomes :
     \E delFail \in SUBSET DeleteTargets(valid_rows(targets_results), gtts_ok),
        placeFail \in SUBSET PlaceTargets(valid_rows(targets_results)) :
       LET gtt_index == build_gtt_index(ExistingGtts(gtts_ok, brokerGtts))
           st == UpdateAllLoop(valid_rows(targets_results), gtt_index, dry_run, delFail,
                               placeFail,
                               Loop(World(brokerGtts, nextId, <<>>, <<>>), <<>>, 0, 0))
       IN  /\ st.w.nextId <= MaxOrderId + 1
           /\ brokerGtts' = st.w.broker
           /\ nextId' = st.w.nextId
           /\ run' = RunRecord("all", gtts_ok, gtt_index, st.w, st.status, st.success,
                               st.failed, "", None)
  /\ UNCHANGED <<holdings, targets_fetched, targets_results, dry_run, confirm_all, callVars>>

\* "Delete old + Place GTT for <symbol>" on row i of the results
UpdateOne(i) ==
  /\ cpc = "page"
  /\ targets_fetched
  /\ ~Disabled(targets_results[i])
  /\ \E gtts_ok \in GttsOutcomes :
     \E delFail \in SUBSET DeleteTargets(<<targets_results[i]>>, gtts_ok),
        placeFail \in SUBSET PlaceTargets(<<targets_results[i]>>) :
       LET gtt_index == build_gtt_index(ExistingGtts(gtts_ok, brokerGtts))
           row == targets_results[i]
           b == UpdateOneBody(row, gtt_index, dry_run, delFail, placeFail,
                              World(brokerGtts, nextId, <<>>, <<>>))
       IN  /\ b.w.nextId <= MaxOrderId + 1
           /\ brokerGtts' = b.w.broker
           /\ nextId' = b.w.nextId
           /\ run' = RunRecord("one", gtts_ok, gtt_index, b.w, <<>>, 0, 0, row.symbol,
                               b.deleted)
  /\ UNCHANGED <<holdings, targets_fetched, targets_results, dry_run, confirm_all, callVars>>

Next ==
  \/ FetchTargets
  \/ ClearTargets
  \/ ToggleDryRun
  \/ ToggleConfirmAll
  \/ UpdateAll
  \/ \E i \in 1..Len(targets_results) : UpdateOne(i)

Spec == Init /\ [][Next]_vars

(* ------------------ direct calls of compute_sell_target ---------------- *)
CallInputs ==
  [target_data : Payloads, avg_price : Opt(1..MaxPrice), rule : Rules,
   k : 0..MaxK, cap_at_high : BOOLEAN]

PageIdle ==
  /\ holdings = HoldingsOf([i \in 1..Len(SymbolNames) |-> [quantity |-> 0, avg_price |-> None, ltp |-> None]])
  /\ brokerGtts = <<>>
  /\ nextId = 1
  /\ targets_fetched = FALSE
  /\ targets_results = <<>>
  /\ dry_run = TRUE
  /\ confirm_all = FALSE
  /\ run = NoRun("none")

ComputeInit ==
  /\ cpc = "ready"
  /\ call \in CallInputs
  /\ ret = None
  /\ PageIdle

ComputeCall ==
  /\ cpc = "ready"
  /\ cpc' = "done"
  /\ ret' = compute_sell_target(call.target_data, call.avg_price, call.rule,
                                call.k, call.cap_at_high)
  /\ UNCHANGED <<call, pageVars>>

ComputeNext == ComputeCall

ComputeSpec == ComputeInit /\ [][ComputeNext]_vars

(* ===================== properties of the rule engine =================== *)
\* the statistics the claims speak of, read off the payload as the spec's
\* normaliser does: StandardDeviation, or StdDev when that key is absent
ClaimStd(td) == IF ~IsNone(td.StandardDeviation) THEN td.StandardDeviation ELSE td.StdDev

\* the candidate after the optional cap: min(candidate, High) when capAtHigh
\* is set and High is present
ClaimCapped(candidate, td, cap_at_high) ==
  IF cap_at_high /\ ~IsNone(td.High) THEN Min2(candidate, Val(td.High)) ELSE candidate

ClaimBase(td) == Max2(Val(td.Mean), Val(td.Median))

\* the standard-deviation entries present in the payload, under either key
ClaimStdEntries(td) ==
  {x \in {td.StandardDeviation, td.StdDev} : ~IsNone(x)}

Returned == cpc = "done"

\* C1: for every rule, k, cap setting, payload and avgPrice, a returned sell
\* target is strictly greater than avgPrice
C1_TargetAboveAvg ==
  (Returned /\ ~IsNone(ret)) => Val(ret) > Val(call.avg_price)

\* C1 witness: a call that returned a target, one unit above avgPrice
C1_Witness ==
  /\ Returned
  /\ ~IsNone(ret)
  /\ Val(ret) = Val(call.avg_price) + 1

\* C2: under "Base + k*StdDev (cap High)", with mean, median and
\* standard_deviation present (a standard_deviation of 0 included), the result
\* is the capped max(mean, median) + k*standard_deviation whenever that is
\* strictly greater than avgPrice
C2_BasePlusKReturned ==
  LET td == call.target_data
  IN  (/\ Returned
       /\ call.rule = RuleBaseK
       /\ ~IsNone(call.avg_price)
       /\ ~IsNone(td.Mean) /\ ~IsNone(td.Median) /\ ~IsNone(ClaimStd(td))
       /\ ClaimCapped(ClaimBase(td) + call.k * Val(ClaimStd(td)), td, call.cap_at_high)
            > Val(call.avg_price))
      => ret = Some(ClaimCapped(ClaimBase(td) + call.k * Val(ClaimStd(td)), td,
                                call.cap_at_high))

\* C3 as stated: under "Base + k*StdDev (cap High)", when the capped candidate
\* is not above avgPrice but High is present and above it, the result is High
\* (stated on payloads with a non-zero StandardDeviation, which the code and
\* the claim read alike)
C3_FallsBackToHigh ==
  LET td == call.target_data
  IN  (/\ Returned
       /\ call.rule = RuleBaseK
       /\ ~IsNone(call.avg_price)
       /\ ~IsNone(td.Mean) /\ ~IsNone(td.Median) /\ Truthy(td.StandardDeviation)
       /\ ClaimCapped(ClaimBase(td) + call.k * Val(td.StandardDeviation), td,
                      call.cap_at_high) <= Val(call.avg_price)
       /\ ~IsNone(td.High) /\ Val(td.High) > Val(call.avg_price))
      => ret = td.High

\* C3 amended: under "Base + k*StdDev (cap High)", with mean and median
\* present, when no standard-deviation entry of the payload gives a capped
\* candidate above avgPrice the result is none, whether or not High is above
\* avgPrice: there is no fallback to High
C3_NoFallbackToHigh ==
  LET td == call.target_data
  IN  (/\ Returned
       /\ call.rule = RuleBaseK
       /\ ~IsNone(call.avg_price)
       /\ ~IsNone(td.Mean) /\ ~IsNone(td.Median)
       /\ \A sd \in ClaimStdEntries(td) :
            ClaimCapped(ClaimBase(td) + call.k * Val(sd), td, call.cap_at_high)
              <= Val(call.avg_price))
      => IsNone(ret)

\* C3 witness: the candidate (non-zero StandardDeviation) is not above
\* avgPrice, High is, and the call returned none
C3_Witness ==
  LET td == call.target_data
  IN  /\ Returned
      /\ call.rule = RuleBaseK
      /\ ~IsNone(call.avg_price)
      /\ ~IsNone(td.Mean) /\ ~IsNone(td.Median) /\ Truthy(td.StandardDeviation)
      /\ IsNone(td.StdDev)
      /\ ClaimCapped(ClaimBase(td) + call.k * Val(td.StandardDeviation), td,
                     call.cap_at_high) <= Val(call.avg_price)
      /\ ~IsNone(td.High) /\ Val(td.High) > Val(call.avg_price)
      /\ IsNone(ret)

\* C4: "Mean + k*StdDev" needs only mean and standard_deviation, and
\* "Median + k*StdDev" only median and standard_deviation: with those present
\* the capped mean (median) + k*standard_deviation is returned whenever it is
\* above avgPrice, whether or not the other of mean/median is present
\* (stated on payloads with a non-zero StandardDeviation, which the code and
\* the claim read alike)
C4_OnlyOwnFieldsRequired ==
  LET td == call.target_data
      own == IF call.rule = RuleMeanK THEN td.Mean ELSE td.Median
  IN  (/\ Returned
       /\ call.rule \in {RuleMeanK, RuleMedianK}
       /\ ~IsNone(call.avg_price)
       /\ ~IsNone(own) /\ Truthy(td.StandardDeviation)
       /\ ClaimCapped(Val(own) + call.k * Val(td.StandardDeviation), td, call.cap_at_high)
            > Val(call.avg_price))
      => ret = Some(ClaimCapped(Val(own) + call.k * Val(td.StandardDeviation), td,
                                call.cap_at_high))

(* ==================== properties of the reconciliation ================= *)
\* a result row the spec lets reconciliation act on
ClaimActionable(r) == ~IsNone(r.sell_target) /\ r.qty > 0 /\ ~IsNone(r.ltp)

ClaimRows == {targets_results[i] : i \in 1..Len(targets_results)}

ClaimActionableRows == SelectSeq(targets_results, ClaimActionable)

\* the broker requests of the latest run made for a symbol, in order
ClaimCallsOf(symbol) == SelectSeq(run.calls, LAMBDA e : e.symbol = symbol)

ClaimOkDeletes(symbol) ==
  Len(SelectSeq(ClaimCallsOf(symbol), LAMBDA e : e.op = "delete_gtt" /\ e.ok))

ClaimPlaces(symbol) == SelectSeq(ClaimCallsOf(symbol), LAMBDA e : e.op = "place_gtt")

ClaimReconciled == {run.reconciled[n] : n \in 1..Len(run.reconciled)}

\* C5: neither path calls delete_existing_gtts or place_gtt for a row whose
\* sell target is none, whose quantity is <= 0 or whose last price is none
C5_OnlyActionableRowsReconciled ==
  /\ \A s \in ClaimReconciled :
       \E r \in ClaimRows : r.symbol = s /\ ClaimActionable(r)
  /\ \A n \in 1..Len(run.calls) :
       run.calls[n].op = "place_gtt" =>
         /\ ~IsNone(run.calls[n].trigger)
         /\ run.calls[n].quantity > 0
         /\ ~IsNone(run.calls[n].last_price)
         /\ \E r \in ClaimRows : r.symbol = run.calls[n].symbol /\ ClaimActionable(r)

\* C5 witness: a live Update ALL run reconciled a symbol while the results also
\* hold a row that must be skipped
C5_Witness ==
  /\ run.kind = "all"
  /\ ~dry_run
  /\ run.reconciled # <<>>
  /\ \E r \in ClaimRows : ~ClaimActionable(r)

\* C6: when a symbol is reconciled, a delete request goes out for every id
\* indexed under it, in index order, whichever of them fail; a failed delete is
\* not counted, and the new order is submitted afterwards all the same
C6_EveryIndexedIdDeleted ==
  \A s \in ClaimReconciled :
    LET cs == ClaimCallsOf(s)
        ids == run.gtt_index[s]
    IN  /\ Len(cs) = Len(ids) + 1
        /\ \A j \in 1..Len(ids) : cs[j].op = "delete_gtt" /\ cs[j].id = ids[j]
        /\ cs[Len(cs)].op = "place_gtt"
        /\ (run.kind = "one" /\ cs[Len(cs)].ok) => run.deleted = Some(ClaimOkDeletes(s))

\* C6 witness: the first of two deletes for a symbol failed, the second went
\* out and succeeded, the order was placed and the count reported is 1
C6_Witness ==
  /\ run.kind = "one"
  /\ Len(run.calls) = 3
  /\ run.calls[1].op = "delete_gtt" /\ ~run.calls[1].ok
  /\ run.calls[2].op = "delete_gtt" /\ run.calls[2].ok
  /\ run.calls[3].op = "place_gtt" /\ run.calls[3].ok
  /\ run.deleted = Some(1)

ClaimPlacedOk(symbol) ==
  \E n \in 1..Len(run.calls) :
    run.calls[n].op = "place_gtt" /\ run.calls[n].symbol = symbol /\ run.calls[n].ok

C8_DeletesThenOnePlace ==
  \A s \in ClaimReconciled :
    LET cs == ClaimCallsOf(s)
        place == cs[Len(cs)]
    IN  /\ cs # <<>>
        /\ Len(ClaimPlaces(s)) = 1
        /\ place.op = "place_gtt"
        /\ \E r \in ClaimRows :
             /\ r.symbol = s
             /\ place.trigger = r.sell_target
             /\ place.price = r.sell_target
             /\ place.quantity = r.qty
             /\ place.transaction_type = "SELL"
        /\ {cs[j].id : j \in 1..(Len(cs) - 1)} =
             {run.gtt_index[s][j] : j \in 1..Len(run.gtt_index[s])}
        /\ (run.kind = "one" /\ place.ok) => run.deleted = Some(ClaimOkDeletes(s))

\* C8 witness: two standing orders, both deleted, then one order placed for
\* quantity 10 at the sell target; deleted count 2
C8_Witness ==
  /\ run.kind = "one"
  /\ Len(run.calls) = 3
  /\ run.calls[1].op = "delete_gtt" /\ run.calls[1].ok
  /\ run.calls[2].op = "delete_gtt" /\ run.calls[2].ok
  /\ run.calls[3].op = "place_gtt" /\ run.calls[3].ok
  /\ run.calls[3].quantity = 10
  /\ run.calls[3].trigger # run.calls[3].last_price
  /\ run.deleted = Some(2)

\* C9: one Update ALL run attempts every valid row exactly once, in order, a
\* failure on one symbol never keeps the loop from the next, and at the end
\* success + failed is the number of valid rows
C9_BatchAttemptsEveryRow ==
  run.kind = "all" =>
    /\ run.status = [i \in 1..Len(ClaimActionableRows) |-> ClaimActionableRows[i].symbol]
    /\ run.success + run.failed = Len(ClaimActionableRows)
    /\ ~dry_run =>
         /\ run.reconciled = run.status
         /\ run.failed =
              Len(SelectSeq(run.calls, LAMBDA e : e.op = "place_gtt" /\ ~e.ok))
         /\ run.success =
              Len(SelectSeq(run.calls, LAMBDA e : e.op = "place_gtt" /\ e.ok))

\* C9 witness: the first symbol's place request failed and the second symbol
\* was still reconciled and placed
C9_Witness ==
  /\ run.kind = "all"
  /\ Len(run.status) = 2
  /\ run.failed = 1
  /\ run.success = 1
  /\ ~ClaimPlacedOk(run.status[1])
  /\ ClaimPlacedOk(run.status[2])

\* C10: while the dry-run toggle is on no step of the page sends a delete or
\* place request: the broker's standing orders stay as they are, and Update ALL
\* still counts every processed row as a success
C10_DryRunLeavesBrokerAlone ==
  [][dry_run =>
       /\ brokerGtts' = brokerGtts
       /\ nextId' = nextId
       /\ run'.calls = <<>>
       /\ run'.reconciled = <<>>
       /\ run'.kind = "all" =>
            (run'.success = Len(ClaimActionableRows) /\ run'.failed = 0)]_vars

\* C10 witness: a dry Update ALL run counted a success for a symbol whose
\* standing order is still at the broker
C10_Witness ==
  /\ dry_run
  /\ run.kind = "all"
  /\ run.success >= 1
  /\ run.calls = <<>>
  /\ \E s \in Symbols : s = run.status[1] /\ CountFor(brokerGtts, s) >= 1

=============================================================================
